---- MODULE Spec2Model ----
(***************************************************************************)
(* Model of the employee directory's indexed record store                  *)
(* (utils/employeeStore.js): the in-memory collection, its two Map         *)
(* indexes, the id counter, the debounce timer and the JSON file it is     *)
(* flushed to.                                                             *)
(***************************************************************************)
EXTENDS Integers, Sequences, FiniteSets, TLC

VARIABLES employees, indexById, indexByEmail, maxId, saveTimeout,
          timers, elapsed, inflight, file,
          issued, last, burst, burstWrites, burstContent,
          initialized, server,
          users, indexByUsername, userMaxId, userInitialized, userTimer,
          userFile, creating,
          adminCookie, userCookie, adminSession

storeVars == <<employees, indexById, indexByEmail, maxId>>
timerVars == <<saveTimeout, timers>>
fileVars  == <<inflight, file>>
ghostVars == <<burst, burstWrites, burstContent>>
userVars == <<users, indexByUsername, userMaxId, userInitialized, userTimer,
              userFile, creating>>
clientVars == <<adminCookie, userCookie, adminSession>>
extVars == <<initialized, server, userVars, clientVars>>
vars == <<employees, indexById, indexByEmail, maxId, saveTimeout,
          timers, elapsed, inflight, file,
          issued, last, burst, burstWrites, burstContent,
          initialized, server,
          users, indexByUsername, userMaxId, userInitialized, userTimer,
          userFile, creating,
          adminCookie, userCookie, adminSession>>

----------------------------------------------------------------------------
(* Bounds of the model *)

MaxRecords == 2
MaxIdBound == 3
MaxInflight == 2
TickMs == 50
MaxUsers == 2
MaxCreating == 2

(* Program constants *)

DEBOUNCE_MS == 100
MASTER_PASSWORD == "instructor123"
ADMIN_TOKEN == "admin_authenticated"

----------------------------------------------------------------------------
(* JavaScript values *)

UNDEF == "undefined"
NaN == -1

Fields == {"name", "designation", "email", "contact", "department",
           "joiningDate", "location"}

Emails == {"a@x.com", "A@X.COM", "b@x.com", ""}

(* String.prototype.toLowerCase on the strings the model draws from *)
toLowerCase(s) ==
  CASE s = "A@X.COM" -> "a@x.com"
    [] s = "Bob" -> "bob"
    [] s = "Ann" -> "ann"
    [] OTHER -> s

(* JavaScript truthiness of a string-or-undefined value *)
Truthy(v) == v # UNDEF /\ v # ""

(* a ?? b *)
Coalesce(a, b) == IF a = UNDEF THEN b ELSE a

(* Route parameters are strings; Number(id) converts them *)
DigitStr == <<"1", "2", "3", "4", "5", "6">>
IdArgs == {DigitStr[i] : i \in 1..MaxIdBound} \cup {"abc"}
Number(s) ==
  IF \E i \in 1..Len(DigitStr) : DigitStr[i] = s
  THEN CHOOSE i \in 1..Len(DigitStr) : DigitStr[i] = s
  ELSE NaN

NoData == [f \in Fields |-> UNDEF]
NoEmployee == [id |-> 0, name |-> UNDEF, designation |-> UNDEF, email |-> UNDEF,
               contact |-> UNDEF, department |-> UNDEF, joiningDate |-> UNDEF,
               location |-> UNDEF]

Min(a, b) == IF a < b THEN a ELSE b
ElapsedCap == DEBOUNCE_MS + TickMs

----------------------------------------------------------------------------
(* Map helpers (JavaScript Map set / delete / has / get) *)

EmptyMap == [k \in {} |-> 0]
MapHas(m, k) == k \in DOMAIN m
MapSet(m, k, v) == [x \in (DOMAIN m) \cup {k} |-> IF x = k THEN v ELSE m[x]]
MapDelete(m, k) == [x \in (DOMAIN m) \ {k} |-> m[x]]

(* employees[index], index counted from 0 as in the source *)
At(emps, index) == emps[index + 1]

Positions(emps) == 0..(Len(emps) - 1)

----------------------------------------------------------------------------
(* _buildIndexes: one pass over the collection; a later record overwrites *)
(* the entry of an earlier one with the same key                          *)

MaxOf(S) == CHOOSE i \in S : \A j \in S : j <= i

BuildIndexById(emps) ==
  [k \in {At(emps, i).id : i \in Positions(emps)} |->
     MaxOf({i \in Positions(emps) : At(emps, i).id = k})]

BuildIndexByEmail(emps) ==
  [k \in {toLowerCase(At(emps, i).email) : i \in Positions(emps)} |->
     MaxOf({i \in Positions(emps) : toLowerCase(At(emps, i).email) = k})]

RECURSIVE BuildMaxId(_, _)
BuildMaxId(emps, acc) ==
  IF emps = <<>> THEN acc
  ELSE BuildMaxId(Tail(emps), IF Head(emps).id > acc THEN Head(emps).id ELSE acc)

----------------------------------------------------------------------------
(* JSON.stringify(this.employees): an array of objects, keys in insertion *)
(* order, members whose value is undefined left out                       *)

StringifyEmployee(e) ==
  [id |-> e.id,
   props |-> SelectSeq(<<<<"name", e.name>>, <<"designation", e.designation>>,
                         <<"email", e.email>>, <<"contact", e.contact>>,
                         <<"department", e.department>>,
                         <<"joiningDate", e.joiningDate>>,
                         <<"location", e.location>>>>,
                       LAMBDA p : p[2] # UNDEF)]

Stringify(emps) == [i \in 1..Len(emps) |-> StringifyEmployee(emps[i])]

(* Length of the text: what decides how much of an older content a later *)
(* write at offset 0 covers                                              *)
RECURSIVE PropsLength(_)
PropsLength(props) ==
  IF props = <<>> THEN 0
  ELSE Len(Head(props)[1]) + Len(Head(props)[2]) + 12 + PropsLength(Tail(props))

RECURSIVE JsonLength(_)
JsonLength(text) ==
  IF text = <<>> THEN 2
  ELSE 20 + PropsLength(Head(text).props) + JsonLength(Tail(text))

JsonFile(text) == [kind |-> "json", text |-> text, size |-> JsonLength(text)]
EmptyFile == [kind |-> "empty", text |-> <<>>, size |-> 0]
GarbledFile(size) == [kind |-> "garbled", text |-> <<>>, size |-> size]

(* the file after text is written from offset 0 over what it holds *)
Overwritten(f, text) ==
  IF JsonLength(text) >= f.size THEN JsonFile(text) ELSE GarbledFile(f.size)

----------------------------------------------------------------------------
(* The record of the most recent call: operation, arguments, outcome *)

MkLast(op, id, data, ret, val) ==
  [op |-> op, id |-> id, data |-> data, ret |-> ret, val |-> val]

----------------------------------------------------------------------------
(* Timers: setTimeout / clearTimeout *)

ClearTimeout(ts, h) == {t \in ts : t.h # h}

NewHandle(ts) ==
  CHOOSE n \in 1..(Cardinality(ts) + 1) :
    /\ \A t \in ts : t.h # n
    /\ \A m \in 1..(Cardinality(ts) + 1) : (\A t \in ts : t.h # m) => n <= m

(* Bookkeeping of bursts: a mutation that follows the previous one by less *)
(* than the debounce delay continues the burst, any other starts a new one *)
NoteMutation ==
  LET continues == burst >= 1 /\ elapsed < DEBOUNCE_MS IN
  /\ burst' = IF continues THEN Min(burst + 1, 2) ELSE 1
  /\ burstWrites' = IF continues THEN burstWrites ELSE 0
  /\ burstContent' = IF continues THEN burstContent ELSE <<>>
  /\ elapsed' = 0

(* _debouncedSave without the clearTimeout of the pending timer *)
DebouncedSaveNoClear ==
  LET h == NewHandle(timers)
  IN /\ saveTimeout' = h
     /\ timers' = timers \cup {[h |-> h, due |-> DEBOUNCE_MS]}
     /\ NoteMutation

(* _debouncedSave *)
DebouncedSave ==
  LET cleared == IF saveTimeout # 0 THEN ClearTimeout(timers, saveTimeout)
                 ELSE timers
      h == NewHandle(cleared)
  IN /\ saveTimeout' = h
     /\ timers' = cleared \cup {[h |-> h, due |-> DEBOUNCE_MS]}
     /\ NoteMutation

----------------------------------------------------------------------------
(* Lookups *)

getById(id) ==
  LET numId == Number(id) IN
  IF ~MapHas(indexById, numId) THEN NoEmployee
  ELSE At(employees, indexById[numId])

getByEmail(email) ==
  IF ~MapHas(indexByEmail, toLowerCase(email)) THEN NoEmployee
  ELSE At(employees, indexByEmail[toLowerCase(email)])

count == Len(employees)

RetOf(val) == IF val = NoEmployee THEN "null" ELSE "record"

GetById(id) ==
  /\ last' = MkLast("getById", Number(id), NoData, RetOf(getById(id)), getById(id))
  /\ UNCHANGED <<storeVars, timerVars, elapsed, fileVars, issued, ghostVars>>
  /\ UNCHANGED extVars

GetByEmail(email) ==
  /\ last' = MkLast("getByEmail", 0, [NoData EXCEPT !.email = email],
                    RetOf(getByEmail(email)), getByEmail(email))
  /\ UNCHANGED <<storeVars, timerVars, elapsed, fileVars, issued, ghostVars>>
  /\ UNCHANGED extVars

----------------------------------------------------------------------------
(* add *)

NewEmployee(id, employeeData) ==
  [id |-> id,
   name |-> employeeData.name,
   designation |-> employeeData.designation,
   email |-> employeeData.email,
   contact |-> employeeData.contact,
   department |-> employeeData.department,
   joiningDate |-> employeeData.joiningDate,
   location |-> employeeData.location]

Add(employeeData) ==
  /\ UNCHANGED extVars
  /\ LET email == toLowerCase(employeeData.email) IN
     IF MapHas(indexByEmail, email)
     THEN /\ last' = MkLast("add", 0, employeeData, "Email already exists", NoEmployee)
          /\ UNCHANGED <<storeVars, timerVars, elapsed, fileVars, issued, ghostVars>>
     ELSE /\ maxId < MaxIdBound
          /\ Len(employees) < MaxRecords
          /\ LET newEmployee == NewEmployee(maxId + 1, employeeData)
                 newIndex == Len(employees)
             IN /\ maxId' = maxId + 1
                /\ employees' = Append(employees, newEmployee)
                /\ indexById' = MapSet(indexById, newEmployee.id, newIndex)
                /\ indexByEmail' = MapSet(indexByEmail, email, newIndex)
                /\ issued' = issued \cup {newEmployee.id}
                /\ last' = MkLast("add", 0, employeeData, "record", newEmployee)
          /\ DebouncedSave
          /\ UNCHANGED fileVars

----------------------------------------------------------------------------
(* update *)

(* the merge with the fallback to the old value left out *)
UpdatedEmployeeNoFallback(employee, updateData) ==
  [id |-> employee.id,
   name |-> updateData.name,
   designation |-> updateData.designation,
   email |-> updateData.email,
   contact |-> updateData.contact,
   department |-> updateData.department,
   joiningDate |-> updateData.joiningDate,
   location |-> updateData.location]

UpdatedEmployee(employee, updateData) ==
  [id |-> employee.id,
   name |-> Coalesce(updateData.name, employee.name),
   designation |-> Coalesce(updateData.designation, employee.designation),
   email |-> Coalesce(updateData.email, employee.email),
   contact |-> Coalesce(updateData.contact, employee.contact),
   department |-> Coalesce(updateData.department, employee.department),
   joiningDate |-> Coalesce(updateData.joiningDate, employee.joiningDate),
   location |-> Coalesce(updateData.location, employee.location)]

(* the guard of line 132 *)
EmailChanges(employee, updateData) ==
  /\ Truthy(updateData.email)
  /\ toLowerCase(updateData.email) # toLowerCase(employee.email)

Update(id, updateData) ==
  /\ UNCHANGED extVars
  /\ LET numId == Number(id) IN
     IF ~MapHas(indexById, numId)
     THEN /\ last' = MkLast("update", numId, updateData, "null", NoEmployee)
          /\ UNCHANGED <<storeVars, timerVars, elapsed, fileVars, issued, ghostVars>>
     ELSE LET index == indexById[numId]
              employee == At(employees, index)
          IN IF EmailChanges(employee, updateData)
                /\ MapHas(indexByEmail, toLowerCase(updateData.email))
             THEN /\ last' = MkLast("update", numId, updateData,
                                    "Email already exists", NoEmployee)
                  /\ UNCHANGED <<storeVars, timerVars, elapsed, fileVars, issued,
                                 ghostVars>>
             ELSE /\ indexByEmail' =
                       IF EmailChanges(employee, updateData)
                       THEN MapSet(MapDelete(indexByEmail, toLowerCase(employee.email)),
                                   toLowerCase(updateData.email), index)
                       ELSE indexByEmail
                  /\ employees' = [employees EXCEPT
                                     ![index + 1] = UpdatedEmployee(employee, updateData)]
                  /\ last' = MkLast("update", numId, updateData, "record",
                                    UpdatedEmployee(employee, updateData))
                  /\ DebouncedSave
                  /\ UNCHANGED <<indexById, maxId, fileVars, issued>>

----------------------------------------------------------------------------
(* delete *)

Filtered(emps, index) ==
  [i \in 1..(Len(emps) - 1) |-> IF i < index + 1 THEN emps[i] ELSE emps[i + 1]]

(* delete that schedules a save before looking the id up *)
DeleteAlwaysSaves(id) ==
  /\ UNCHANGED extVars
  /\ LET numId == Number(id) IN
     IF ~MapHas(indexById, numId)
     THEN /\ last' = MkLast("delete", numId, NoData, "false", NoEmployee)
          /\ DebouncedSave
          /\ UNCHANGED <<storeVars, fileVars, issued>>
     ELSE LET index == indexById[numId]
              employee == At(employees, index)
              remaining == Filtered(employees, index)
          IN /\ employees' = remaining
             /\ indexById' = BuildIndexById(remaining)
             /\ indexByEmail' = BuildIndexByEmail(remaining)
             /\ maxId' = BuildMaxId(remaining, 0)
             /\ last' = MkLast("delete", numId, NoData, "true", employee)
             /\ DebouncedSave
             /\ UNCHANGED <<fileVars, issued>>

Delete(id) ==
  /\ UNCHANGED extVars
  /\ LET numId == Number(id) IN
     IF ~MapHas(indexById, numId)
     THEN /\ last' = MkLast("delete", numId, NoData, "false", NoEmployee)
          /\ UNCHANGED <<storeVars, timerVars, elapsed, fileVars, issued, ghostVars>>
     ELSE LET index == indexById[numId]
              employee == At(employees, index)
              remaining == Filtered(employees, index)
          IN /\ employees' = remaining
             /\ indexById' = BuildIndexById(remaining)
             /\ indexByEmail' = BuildIndexByEmail(remaining)
             /\ maxId' = BuildMaxId(remaining, 0)
             /\ last' = MkLast("delete", numId, NoData, "true", employee)
             /\ DebouncedSave
             /\ UNCHANGED <<fileVars, issued>>

----------------------------------------------------------------------------
(* Time, the debounce timer and the file write it starts *)

Tick ==
  /\ \A t \in timers : t.due > 0
  /\ timers # {} \/ elapsed < ElapsedCap
  /\ timers' = {[t EXCEPT !.due = t.due - TickMs] : t \in timers}
  /\ elapsed' = Min(elapsed + TickMs, ElapsedCap)
  /\ last' = MkLast("tick", 0, NoData, "none", NoEmployee)
  /\ UNCHANGED <<storeVars, saveTimeout, fileVars, issued, ghostVars>>
  /\ UNCHANGED extVars

(* the timer callback: () => this._persist(), which serializes the *)
(* collection and hands the text to fs.writeFile                     *)
TimerFire ==
  \E t \in timers :
    /\ t.due <= 0
    /\ Len(inflight) < MaxInflight
    /\ timers' = timers \ {t}
    /\ inflight' = Append(inflight, [text |-> Stringify(employees), phase |-> "queued"])
    /\ burstWrites' = Min(burstWrites + 1, 2)
    /\ burstContent' = Stringify(employees)
    /\ last' = MkLast("fire", 0, NoData, "none", NoEmployee)
    /\ UNCHANGED <<storeVars, saveTimeout, elapsed, file, issued, burst>>
    /\ UNCHANGED extVars

RemoveAt(s, i) == [j \in 1..(Len(s) - 1) |-> IF j < i THEN s[j] ELSE s[j + 1]]

(* fs.writeFile opens the file with flag 'w', truncating it *)
WriteOpen ==
  \E i \in 1..Len(inflight) :
    /\ inflight[i].phase = "queued"
    /\ inflight' = [inflight EXCEPT ![i].phase = "open"]
    /\ file' = EmptyFile
    /\ last' = MkLast("writeOpen", 0, NoData, "none", NoEmployee)
    /\ UNCHANGED extVars
    /\ UNCHANGED <<storeVars, timerVars, elapsed, issued, ghostVars>>

(* ... then writes the text from offset 0 and closes.  Data that another *)
(* write has put into the file since this one truncated it is covered    *)
(* only as far as the text reaches.                                      *)
WriteDone ==
  \E i \in 1..Len(inflight) :
    /\ inflight[i].phase = "open"
    /\ inflight' = RemoveAt(inflight, i)
    /\ file' = Overwritten(file, inflight[i].text)
    /\ last' = MkLast("writeDone", 0, NoData, "none", NoEmployee)
    /\ UNCHANGED extVars
    /\ UNCHANGED <<storeVars, timerVars, elapsed, issued, ghostVars>>

----------------------------------------------------------------------------
(* Inputs *)

----------------------------------------------------------------------------
(* The user store (utils/userStore.js) and the signup and login handlers *)
(* (routes/userRoutes.js)                                                *)

Usernames == {"bob", "Bob", "ann"}
Passwords == {"secret1", "letmein9"}
Salts == {"salt1", "salt2"}
CreatedAt == "2024-01-01T00:00:00.000Z"

(* bcrypt.hash(password, SALT_ROUNDS): a text that carries the salt and a *)
(* digest of salt and password, never the password                       *)
BcryptHash(password, salt) ==
  CASE password = "secret1" /\ salt = "salt1" -> "$2b$10$salt1.q8Zk"
    [] password = "secret1" /\ salt = "salt2" -> "$2b$10$salt2.Wm3p"
    [] password = "letmein9" /\ salt = "salt1" -> "$2b$10$salt1.Jx7c"
    [] password = "letmein9" /\ salt = "salt2" -> "$2b$10$salt2.Tn5v"
    [] password = MASTER_PASSWORD /\ salt = "salt1" -> "$2b$10$salt1.Ae9r"
    [] password = MASTER_PASSWORD /\ salt = "salt2" -> "$2b$10$salt2.Ly2d"
    [] salt = "salt1" -> "$2b$10$salt1.0000"
    [] OTHER -> "$2b$10$salt2.0000"

(* bcrypt.compare(password, hash) *)
BcryptCompare(password, hash) ==
  \E salt \in Salts : BcryptHash(password, salt) = hash

(* the plaintext kept in place of the hash *)
HashedPasswordPlain(password, salt) == password

(* line 79: const hashedPassword = await bcrypt.hash(password, SALT_ROUNDS) *)
HashedPassword(password, salt) == BcryptHash(password, salt)

NoUser == [id |-> 0, username |-> UNDEF]
NoRequest == [username |-> UNDEF, password |-> UNDEF, confirmPassword |-> UNDEF]

(* what a handler sends back: the view or redirect, the error shown, the *)
(* userToken cookie it sets, and the value the store call returned       *)
Response(view, error, cookie, user) ==
  [view |-> view, error |-> error, cookie |-> cookie, user |-> user]

(* JSON.stringify(this.users) *)
StringifyUser(u) ==
  [id |-> u.id,
   props |-> SelectSeq(<<<<"username", u.username>>, <<"password", u.password>>,
                         <<"createdAt", u.createdAt>>>>,
                       LAMBDA p : p[2] # UNDEF)]

StringifyUsers(us) == [i \in 1..Len(us) |-> StringifyUser(us[i])]

(* getByUsername *)
getByUsername(username) ==
  IF ~MapHas(indexByUsername, toLowerCase(username)) THEN NoUser
  ELSE At(users, indexByUsername[toLowerCase(username)])

(* a lookup that compares the username as typed *)
UsernameTakenExact(username) == MapHas(indexByUsername, username)

(* line 75: this.indexByUsername.has(lowerUsername) *)
UsernameTaken(username) == MapHas(indexByUsername, toLowerCase(username))

(* _debouncedSave of the user store: (re)arms the one pending timer *)
UserDebouncedSave == userTimer' = TRUE

(* a guard that lets every request through *)
IsGuestAlways == TRUE

(* isGuest: next() when the request carries no userToken *)
IsGuest == userCookie = NoUser

GuestRedirect(req) ==
  MkLast("guestRedirect", 0, req, "redirect", Response("/", "none", NoUser, NoUser))

(* the validation without the comparison with confirmPassword *)
SignupErrorNoConfirm(req) ==
  IF ~Truthy(req.username) \/ ~Truthy(req.password)
    THEN "Username and password are required"
  ELSE IF Len(req.username) < 3 THEN "Username must be at least 3 characters"
  ELSE IF Len(req.password) < 6 THEN "Password must be at least 6 characters"
  ELSE "none"

(* the validation of POST /signup, first failing check first *)
SignupError(req) ==
  IF ~Truthy(req.username) \/ ~Truthy(req.password)
    THEN "Username and password are required"
  ELSE IF Len(req.username) < 3 THEN "Username must be at least 3 characters"
  ELSE IF Len(req.password) < 6 THEN "Password must be at least 6 characters"
  ELSE IF req.password # req.confirmPassword THEN "Passwords do not match"
  ELSE "none"

employeeVars == <<employees, indexById, indexByEmail, maxId, saveTimeout,
                  timers, elapsed, inflight, file, issued, burst, burstWrites,
                  burstContent, initialized, server>>

(* POST /signup up to the await of bcrypt.hash inside userStore.create *)
SignupBegin(req) ==
  /\ UNCHANGED employeeVars
  /\ UNCHANGED clientVars
  /\ IF ~IsGuest
     THEN /\ last' = GuestRedirect(req)
          /\ UNCHANGED userVars
     ELSE IF SignupError(req) # "none"
     THEN /\ last' = MkLast("signup", 0, req, "render",
                            Response("user/signup", SignupError(req), NoUser, NoUser))
          /\ UNCHANGED userVars
     ELSE IF UsernameTaken(req.username)
     THEN /\ last' = MkLast("signup", 0, req, "render",
                            Response("user/signup", "Username already exists",
                                     NoUser, NoUser))
          /\ UNCHANGED userVars
     ELSE /\ Len(creating) < MaxCreating
          /\ creating' = Append(creating, req)
          /\ last' = MkLast("signup", 0, req, "await",
                            Response("none", "none", NoUser, NoUser))
          /\ UNCHANGED <<users, indexByUsername, userMaxId, userInitialized,
                         userTimer, userFile>>

(* ... and from there on: the rest of create, the cookie, the redirect *)
SignupFinish ==
  \E i \in 1..Len(creating), salt \in Salts :
    LET req == creating[i]
        newUser == [id |-> userMaxId + 1,
                    username |-> req.username,
                    password |-> HashedPassword(req.password, salt),
                    createdAt |-> CreatedAt]
        newIndex == Len(users)
        returned == [id |-> newUser.id, username |-> newUser.username]
    IN /\ Len(users) < MaxUsers
       /\ creating' = [j \in 1..(Len(creating) - 1) |->
                         IF j < i THEN creating[j] ELSE creating[j + 1]]
       /\ userMaxId' = userMaxId + 1
       /\ users' = Append(users, newUser)
       /\ indexByUsername' = MapSet(indexByUsername, toLowerCase(req.username),
                                    newIndex)
       /\ UserDebouncedSave
       /\ last' = MkLast("signupDone", 0, req, "redirect",
                         Response("/", "none", returned, returned))
       /\ userCookie' = returned
       /\ UNCHANGED <<userInitialized, userFile, adminCookie, adminSession>>
       /\ UNCHANGED employeeVars

(* authenticate without the branch of the override credential *)
authenticateNoOverride(username, password) ==
  LET user == getByUsername(username) IN
  IF user = NoUser THEN NoUser
  ELSE IF ~BcryptCompare(password, user.password) THEN NoUser
  ELSE [id |-> user.id, username |-> user.username]

(* authenticate *)
authenticate(username, password) ==
  LET user == getByUsername(username) IN
  IF password = MASTER_PASSWORD
  THEN IF user # NoUser THEN [id |-> user.id, username |-> user.username]
       ELSE NoUser
  ELSE IF user = NoUser THEN NoUser
  ELSE IF ~BcryptCompare(password, user.password) THEN NoUser
  ELSE [id |-> user.id, username |-> user.username]

(* POST /login with a message of its own for a username nobody has *)
LoginNamesCause(req) ==
  /\ UNCHANGED employeeVars
  /\ UNCHANGED userVars
  /\ UNCHANGED <<adminCookie, adminSession>>
  /\ IF ~IsGuest
     THEN /\ last' = GuestRedirect(req)
          /\ userCookie' = userCookie
     ELSE IF ~Truthy(req.username) \/ ~Truthy(req.password)
     THEN /\ last' = MkLast("login", 0, req, "render",
                            Response("user/login",
                                     "Username and password are required",
                                     NoUser, NoUser))
          /\ userCookie' = userCookie
     ELSE LET user == authenticate(req.username, req.password) IN
          IF user = NoUser
          THEN /\ last' = MkLast("login", 0, req, "render",
                                 Response("user/login",
                                          IF getByUsername(req.username) = NoUser
                                          THEN "Unknown username"
                                          ELSE "Invalid username or password",
                                          NoUser, NoUser))
               /\ userCookie' = userCookie
          ELSE /\ last' = MkLast("login", 0, req, "redirect",
                                 Response("/", "none",
                                          [id |-> user.id, username |-> user.username],
                                          user))
               /\ userCookie' = [id |-> user.id, username |-> user.username]

(* POST /login *)
Login(req) ==
  /\ UNCHANGED employeeVars
  /\ UNCHANGED userVars
  /\ UNCHANGED <<adminCookie, adminSession>>
  /\ IF ~IsGuest
     THEN /\ last' = GuestRedirect(req)
          /\ userCookie' = userCookie
     ELSE IF ~Truthy(req.username) \/ ~Truthy(req.password)
     THEN /\ last' = MkLast("login", 0, req, "render",
                            Response("user/login",
                                     "Username and password are required",
                                     NoUser, NoUser))
          /\ userCookie' = userCookie
     ELSE LET user == authenticate(req.username, req.password) IN
          IF user = NoUser
          THEN /\ last' = MkLast("login", 0, req, "render",
                                 Response("user/login",
                                          "Invalid username or password",
                                          NoUser, NoUser))
               /\ userCookie' = userCookie
          ELSE /\ last' = MkLast("login", 0, req, "redirect",
                                 Response("/", "none",
                                          [id |-> user.id, username |-> user.username],
                                          user))
               /\ userCookie' = [id |-> user.id, username |-> user.username]

(* the timer of the user store fires: _persist writes users.json *)
UserTimerFire ==
  /\ userTimer
  /\ userTimer' = FALSE
  /\ userFile' = JsonFile(StringifyUsers(users))
  /\ last' = MkLast("userFire", 0, NoRequest, "none",
                    Response("none", "none", NoUser, NoUser))
  /\ UNCHANGED <<users, indexByUsername, userMaxId, userInitialized, creating>>
  /\ UNCHANGED employeeVars
  /\ UNCHANGED clientVars

(* GET /logout: clearCookie('userToken'), redirect to / *)
UserLogout ==
  /\ userCookie' = NoUser
  /\ last' = MkLast("logout", 0, NoRequest, "redirect",
                    Response("/", "none", NoUser, NoUser))
  /\ UNCHANGED <<adminCookie, adminSession>>
  /\ UNCHANGED userVars
  /\ UNCHANGED employeeVars

(* GET /login and GET /signup: the form, or the redirect of isGuest *)
GetUserForm(path) ==
  /\ last' = IF ~IsGuest THEN GuestRedirect(NoRequest)
             ELSE MkLast("form", 0, NoRequest, "render",
                         Response(path, "none", NoUser, NoUser))
  /\ UNCHANGED userVars
  /\ UNCHANGED employeeVars
  /\ UNCHANGED clientVars

----------------------------------------------------------------------------
(* Admin authentication (routes/adminRoutes.js, middleware/authMiddleware.js) *)

ADMIN_CREDENTIALS == [username |-> "admin", password |-> "admin123"]

(* isAdmin: next() when the adminToken cookie is the admin token *)
IsAdmin == adminCookie = ADMIN_TOKEN

(* isAdminGuest: next() unless the adminToken cookie is the admin token *)
IsAdminGuest == adminCookie # ADMIN_TOKEN

NoAdminRequest == [username |-> UNDEF, password |-> UNDEF]

(* adminSession notes that the client has posted the admin credentials *)
(* to /admin/login and has not requested /admin/logout since           *)
PostsCredentials(req) ==
  req.username = ADMIN_CREDENTIALS.username /\ req.password = ADMIN_CREDENTIALS.password

(* GET /admin/login *)
AdminLoginForm ==
  /\ last' = IF ~IsAdminGuest
             THEN MkLast("adminGuestRedirect", 0, NoAdminRequest, "redirect",
                         Response("/admin/dashboard", "none", NoUser, NoUser))
             ELSE MkLast("adminForm", 0, NoAdminRequest, "render",
                         Response("admin/login", "none", NoUser, NoUser))
  /\ UNCHANGED userVars
  /\ UNCHANGED employeeVars
  /\ UNCHANGED clientVars

(* POST /admin/login *)
AdminLogin(req) ==
  /\ adminSession' = (adminSession \/ PostsCredentials(req))
  /\ IF ~IsAdminGuest
     THEN /\ last' = MkLast("adminGuestRedirect", 0, req, "redirect",
                            Response("/admin/dashboard", "none", NoUser, NoUser))
          /\ adminCookie' = adminCookie
     ELSE IF req.username = ADMIN_CREDENTIALS.username
             /\ req.password = ADMIN_CREDENTIALS.password
     THEN /\ last' = MkLast("adminLogin", 0, req, "redirect",
                            Response("/admin/dashboard", "none", NoUser, NoUser))
          /\ adminCookie' = ADMIN_TOKEN
     ELSE /\ last' = MkLast("adminLogin", 0, req, "render",
                            Response("admin/login", "Invalid username or password",
                                     NoUser, NoUser))
          /\ adminCookie' = adminCookie
  /\ userCookie' = userCookie
  /\ UNCHANGED userVars
  /\ UNCHANGED employeeVars

(* GET /admin/logout that leaves the cookie in place *)
AdminLogoutKeepsCookie ==
  /\ adminCookie' = adminCookie
  /\ adminSession' = FALSE
  /\ last' = MkLast("adminLogout", 0, NoAdminRequest, "redirect",
                    Response("/admin/login", "none", NoUser, NoUser))
  /\ userCookie' = userCookie
  /\ UNCHANGED userVars
  /\ UNCHANGED employeeVars

(* GET /admin/logout: clearCookie('adminToken'), redirect to the login *)
AdminLogout ==
  /\ adminCookie' = "none"
  /\ adminSession' = FALSE
  /\ last' = MkLast("adminLogout", 0, NoAdminRequest, "redirect",
                    Response("/admin/login", "none", NoUser, NoUser))
  /\ userCookie' = userCookie
  /\ UNCHANGED userVars
  /\ UNCHANGED employeeVars

(* the adminToken cookie reaches its maxAge of 24 hours: the client drops it *)
AdminCookieExpires ==
  /\ adminCookie = ADMIN_TOKEN
  /\ adminCookie' = "none"
  /\ last' = MkLast("expire", 0, NoAdminRequest, "none",
                    Response("none", "none", NoUser, NoUser))
  /\ UNCHANGED <<userCookie, adminSession>>
  /\ UNCHANGED userVars
  /\ UNCHANGED employeeVars

AdminLoginRequests ==
  [username : {"admin", "bob"}, password : {"admin123", "secret1"}]

(* the requests of the runs that follow the cookies *)
SessionSignupRequests ==
  [username : {"bob", "al", ""}, password : {"secret1", "abc", ""},
   confirmPassword : {"secret1", "letmein9"}]

SessionLoginRequests ==
  [username : {"bob"}, password : {"secret1", "letmein9"}, confirmPassword : {UNDEF}]

SignupRequests ==
  [username : Usernames, password : Passwords, confirmPassword : {"secret1"}]

LoginRequests ==
  [username : Usernames \cup {""}, password : Passwords \cup {MASTER_PASSWORD, ""},
   confirmPassword : {UNDEF}]

----------------------------------------------------------------------------
(* init() of the two stores and startServer (app.js) *)

MissingFile == [kind |-> "missing", text |-> <<>>, size |-> 0]

(* JSON.parse: a member the text does not have reads as undefined *)
Prop(props, key) ==
  IF \E i \in 1..Len(props) : props[i][1] = key
  THEN props[CHOOSE i \in 1..Len(props) : props[i][1] = key][2]
  ELSE UNDEF

ParseEmployee(o) ==
  [id |-> o.id,
   name |-> Prop(o.props, "name"),
   designation |-> Prop(o.props, "designation"),
   email |-> Prop(o.props, "email"),
   contact |-> Prop(o.props, "contact"),
   department |-> Prop(o.props, "department"),
   joiningDate |-> Prop(o.props, "joiningDate"),
   location |-> Prop(o.props, "location")]

Parse(text) == [i \in 1..Len(text) |-> ParseEmployee(text[i])]

ParseUser(o) ==
  [id |-> o.id,
   username |-> Prop(o.props, "username"),
   password |-> Prop(o.props, "password"),
   createdAt |-> Prop(o.props, "createdAt")]

ParseUsers(text) == [i \in 1..Len(text) |-> ParseUser(text[i])]

(* the fields of a store object *)
EmployeeStore(emps, byId, byEmail, max, init) ==
  [employees |-> emps, indexById |-> byId, indexByEmail |-> byEmail,
   maxId |-> max, initialized |-> init]

UserStore(us, byUsername, max, init) ==
  [users |-> us, indexByUsername |-> byUsername, maxId |-> max,
   initialized |-> init]

(* the constructors *)
NewEmployeeStore == EmployeeStore(<<>>, EmptyMap, EmptyMap, 0, FALSE)
NewUserStore == UserStore(<<>>, EmptyMap, 0, FALSE)

(* what a call of init() did: the store after it, the file after it, the *)
(* error it threw, and which of its branches ran                         *)
Outcome(store, f, threw, did) ==
  [store |-> store, file |-> f, threw |-> threw, did |-> did]

(* number of records _buildIndexes passes before emp.email.toLowerCase() *)
(* throws on a record without an email; all of them if none does         *)
GoodPrefix(emps) ==
  IF \E i \in 1..Len(emps) : emps[i].email = UNDEF
  THEN (CHOOSE i \in 1..Len(emps) :
          /\ emps[i].email = UNDEF
          /\ \A j \in 1..(i - 1) : emps[j].email # UNDEF) - 1
  ELSE Len(emps)

(* the try block with the call of _buildIndexes left out *)
LoadedNoIndexes(cur, f) ==
  Outcome([cur EXCEPT !.employees = Parse(f.text), !.initialized = TRUE],
          f, "none", "loaded")

(* the try block of init(): parse, assign, _buildIndexes, initialized *)
Loaded(cur, f) ==
  LET emps == Parse(f.text)
      n == GoodPrefix(emps)
  IN IF n = Len(emps)
     THEN Outcome(EmployeeStore(emps, BuildIndexById(emps), BuildIndexByEmail(emps),
                                BuildMaxId(emps, 0), TRUE),
                  f, "none", "loaded")
     ELSE Outcome(EmployeeStore(emps,
                                BuildIndexById(SubSeq(emps, 1, n + 1)),
                                BuildIndexByEmail(SubSeq(emps, 1, n)),
                                BuildMaxId(SubSeq(emps, 1, n), 0),
                                FALSE),
                  f, "TypeError", "failed")

(* the ENOENT branch without the write *)
FileNotFoundNoWrite(cur, f) ==
  Outcome([cur EXCEPT !.employees = <<>>, !.initialized = TRUE],
          f, "none", "created")

(* the ENOENT branch: empty collection, initialized, _persist awaited *)
FileNotFound(cur, f) ==
  Outcome([cur EXCEPT !.employees = <<>>, !.initialized = TRUE],
          JsonFile(Stringify(<<>>)), "none", "created")

(* init() without the test of this.initialized *)
employeeInitNoGuard(cur, f) ==
  IF f.kind = "json" THEN Loaded(cur, f)
  ELSE IF f.kind = "missing" THEN FileNotFound(cur, f)
  ELSE Outcome(cur, f, "SyntaxError", "failed")

(* employeeStore.init() *)
employeeInit(cur, f) ==
  IF cur.initialized THEN Outcome(cur, f, "none", "noop")
  ELSE IF f.kind = "json" THEN Loaded(cur, f)
  ELSE IF f.kind = "missing" THEN FileNotFound(cur, f)
  ELSE Outcome(cur, f, "SyntaxError", "failed")

BuildIndexByUsername(us) ==
  [k \in {toLowerCase(At(us, i).username) : i \in Positions(us)} |->
     MaxOf({i \in Positions(us) : toLowerCase(At(us, i).username) = k})]

(* userStore.init() *)
userInit(cur, f) ==
  IF cur.initialized THEN Outcome(cur, f, "none", "noop")
  ELSE IF f.kind = "json"
    THEN LET us == ParseUsers(f.text) IN
         Outcome(UserStore(us, BuildIndexByUsername(us), BuildMaxId(us, 0), TRUE),
                 f, "none", "loaded")
  ELSE IF f.kind = "missing"
    THEN Outcome([cur EXCEPT !.users = <<>>, !.initialized = TRUE],
                 JsonFile(StringifyUsers(<<>>)), "none", "created")
  ELSE Outcome(cur, f, "SyntaxError", "failed")

ThisEmployeeStore ==
  EmployeeStore(employees, indexById, indexByEmail, maxId, initialized)

ThisUserStore == UserStore(users, indexByUsername, userMaxId, userInitialized)

SetEmployeeStore(o) ==
  /\ employees' = o.store.employees
  /\ indexById' = o.store.indexById
  /\ indexByEmail' = o.store.indexByEmail
  /\ maxId' = o.store.maxId
  /\ initialized' = o.store.initialized
  /\ file' = o.file

SetUserStore(o) ==
  /\ users' = o.store.users
  /\ indexByUsername' = o.store.indexByUsername
  /\ userMaxId' = o.store.maxId
  /\ userInitialized' = o.store.initialized
  /\ userFile' = o.file

(* A process starts: the modules construct their stores, startServer     *)
(* awaits employeeStore.init(), then userStore.init(), then listens; an  *)
(* error of either ends the process with exit code 1.  Timers and writes *)
(* of an earlier process are gone with it.                               *)
StartServer ==
  LET e == employeeInit(NewEmployeeStore, file)
      u == IF e.threw = "none" THEN userInit(NewUserStore, userFile)
           ELSE Outcome(NewUserStore, userFile, "none", "skipped")
  IN /\ SetEmployeeStore(e)
     /\ SetUserStore(u)
     /\ server' = IF e.threw = "none" /\ u.threw = "none" THEN "listening"
                  ELSE "exited"
     /\ saveTimeout' = 0
     /\ timers' = {}
     /\ elapsed' = ElapsedCap
     /\ inflight' = <<>>
     /\ issued' = {}
     /\ burst' = 0
     /\ burstWrites' = 0
     /\ burstContent' = <<>>
     /\ userTimer' = FALSE
     /\ creating' = <<>>
     /\ UNCHANGED clientVars
     /\ last' = MkLast("startServer", 0, NoData, e.did, NoEmployee)

(* employeeStore.init() called on the store of the running process *)
EmployeeStoreInit ==
  LET e == employeeInit(ThisEmployeeStore, file)
  IN /\ server = "listening"
     /\ SetEmployeeStore(e)
     /\ last' = MkLast("init", 0, NoData, e.did, NoEmployee)
     /\ UNCHANGED <<timerVars, elapsed, inflight, issued, ghostVars, server, userVars,
                    clientVars>>

(* userStore.init() called on the store of the running process *)
UserStoreInit ==
  LET u == userInit(ThisUserStore, userFile)
  IN /\ server = "listening"
     /\ SetUserStore(u)
     /\ last' = MkLast("userInit", 0, NoData, u.did, NoEmployee)
     /\ UNCHANGED <<storeVars, timerVars, elapsed, fileVars, issued, ghostVars,
                    initialized, server, userTimer, creating, clientVars>>

(* the pending timer fires and the write of _persist completes before *)
(* anything else happens                                              *)
Flush ==
  /\ server = "listening"
  /\ timers # {}
  /\ timers' = {}
  /\ file' = JsonFile(Stringify(employees))
  /\ last' = MkLast("flush", 0, NoData, "none", NoEmployee)
  /\ UNCHANGED <<storeVars, saveTimeout, elapsed, inflight, issued, ghostVars>>
  /\ UNCHANGED extVars

(* fs.writeFile rejects (disk full, permissions, ...): the promise of    *)
(* _persist, which the timer callback drops, is rejected and nobody      *)
(* handles it.  The file stays as the failed write left it.  Depending   *)
(* on the runtime's treatment of unhandled rejections the process goes   *)
(* on or ends; in neither case does the store write again.               *)
WriteFail ==
  \E i \in 1..Len(inflight), goesOn \in BOOLEAN :
    /\ server = "listening"
    /\ file' = file
    /\ inflight' = IF goesOn THEN RemoveAt(inflight, i) ELSE <<>>
    /\ timers' = IF goesOn THEN timers ELSE {}
    /\ server' = IF goesOn THEN "listening" ELSE "exited"
    /\ last' = MkLast("writeFail", 0, NoData, "none", NoEmployee)
    /\ UNCHANGED <<storeVars, saveTimeout, elapsed, issued, ghostVars,
                   initialized, userVars, clientVars>>

(* the requests the running process serves *)
ServeAdd(employeeData) == server = "listening" /\ Add(employeeData)
ServeUpdate(id, updateData) == server = "listening" /\ Update(id, updateData)
ServeDelete(id) == server = "listening" /\ Delete(id)

----------------------------------------------------------------------------
(* getAll / getRecentEmployees and what their caller holds *)

(* new Date(joiningDate), in days since the epoch *)
DateValue(joiningDate) ==
  CASE joiningDate = "2024-01-15" -> 19737
    [] joiningDate = "2023-06-01" -> 19509
    [] OTHER -> NaN

(* [...this.employees]: a new array whose elements are the record objects *)
(* of the store themselves, named here by their positions                 *)
ShallowCopy(emps) == [i \in 1..Len(emps) |-> i - 1]

(* .sort((a, b) => new Date(b.joiningDate) - new Date(a.joiningDate)): *)
(* latest first, records of one date in the order they had             *)
Before(emps, i, j) ==
  \/ DateValue(At(emps, i).joiningDate) > DateValue(At(emps, j).joiningDate)
  \/ /\ DateValue(At(emps, i).joiningDate) = DateValue(At(emps, j).joiningDate)
     /\ i < j

SortedByJoiningDate(emps) ==
  [k \in 1..Len(emps) |->
     CHOOSE i \in Positions(emps) :
       Cardinality({j \in Positions(emps) : Before(emps, j, i)}) = k - 1]

getAll == [refs |-> ShallowCopy(employees)]

getRecentEmployees(limit) ==
  [refs |-> SubSeq(SortedByJoiningDate(employees), 1, Min(limit, Len(employees)))]

GetAll ==
  /\ last' = MkLast("getAll", 0, NoData, "array", getAll)
  /\ UNCHANGED <<storeVars, timerVars, elapsed, fileVars, issued, ghostVars>>
  /\ UNCHANGED extVars

(* getRecentEmployees sorting this.employees itself, not a copy *)
GetRecentEmployeesInPlace(limit) ==
  /\ employees' = [k \in 1..Len(employees) |->
                     At(employees, SortedByJoiningDate(employees)[k])]
  /\ last' = MkLast("getRecentEmployees", limit, NoData, "array",
                    [refs |-> [k \in 1..Min(limit, Len(employees)) |-> k - 1]])
  /\ UNCHANGED <<indexById, indexByEmail, maxId, timerVars, elapsed, fileVars,
                 issued, ghostVars>>
  /\ UNCHANGED extVars

GetRecentEmployees(limit) ==
  /\ last' = MkLast("getRecentEmployees", limit, NoData, "array",
                    getRecentEmployees(limit))
  /\ UNCHANGED <<storeVars, timerVars, elapsed, fileVars, issued, ghostVars>>
  /\ UNCHANGED extVars

(* The caller pushes to or pops from the array it was handed: the array *)
(* is its own                                                           *)
CallerChangesArray ==
  /\ last.op \in {"getAll", "getRecentEmployees"}
  /\ last' = MkLast("callerWrite", 0, NoData, "array", NoEmployee)
  /\ UNCHANGED <<storeVars, timerVars, elapsed, fileVars, issued, ghostVars>>
  /\ UNCHANGED extVars

(* The caller assigns the name of a record it was handed: a record of an *)
(* array is the object the store holds, a record returned by itself is a *)
(* copy ({ ...employee })                                                *)
CallerAssignsName(name) ==
  /\ \/ /\ last.op \in {"getAll", "getRecentEmployees"}
        /\ \E i \in 1..Len(last.val.refs) :
             employees' = [employees EXCEPT ![last.val.refs[i] + 1].name = name]
     \/ /\ last.op \in {"getById", "getByEmail", "add", "update"}
        /\ last.ret = "record"
        /\ employees' = employees
  /\ last' = MkLast("callerWrite", 0, [NoData EXCEPT !.name = name], "record",
                    NoEmployee)
  /\ UNCHANGED <<indexById, indexByEmail, maxId, timerVars, elapsed, fileVars,
                 issued, ghostVars>>
  /\ UNCHANGED extVars

----------------------------------------------------------------------------
(* The REST routes /api/employees (routes/employeeRoutes.js).  A handler  *)
(* runs without interruption up to its first await, which follows the     *)
(* call of the store: check and store call are one step.                  *)

(* !name || !designation || ... || !location *)
FieldMissing(body) == \E f \in Fields : ~Truthy(body[f])

(* /^[^\s@]+@[^\s@]+\.[^\s@]+$/.test(email) on the strings the model draws from *)
EmailRegexTest(email) ==
  CASE email = "a@x.com" -> TRUE
    [] email = "A@X.COM" -> TRUE
    [] email = "b@x.com" -> TRUE
    [] OTHER -> FALSE

(* res.status(status).json({ success, error, data }) *)
ApiResponse(status, success, error, data) ==
  [status |-> status, success |-> success, error |-> error, data |-> data]

(* nothing but the record of the latest call changes *)
OnlyLast ==
  /\ UNCHANGED <<storeVars, timerVars, elapsed, fileVars, issued, ghostVars>>
  /\ UNCHANGED extVars

(* the response a handler builds from what the store call returned or threw *)
ApiResponseOf(l) ==
  CASE l.op \in {"apiGet", "apiPost", "apiPut", "apiDelete"} -> l.val
    [] l.op = "add" /\ l.ret = "record" -> ApiResponse(201, TRUE, "none", l.val)
    [] l.op = "update" /\ l.ret \in {"record", "null"}
         -> ApiResponse(200, TRUE, "none", l.val)
    [] l.op \in {"add", "update"} /\ l.ret = "Email already exists"
         -> ApiResponse(409, FALSE, "Email already exists", NoEmployee)
    [] l.op = "delete" /\ l.ret = "true"
         -> ApiResponse(200, TRUE, "none", NoEmployee)
    [] l.op = "delete" /\ l.ret = "false"
         -> ApiResponse(500, FALSE, "Failed to delete employee", NoEmployee)
    [] OTHER -> ApiResponse(500, FALSE, "Server error", NoEmployee)

(* GET /api/employees/:id answering without the test of the lookup *)
ApiGetNoCheck(id) ==
  /\ last' = MkLast("apiGet", Number(id), NoData, "200",
                    ApiResponse(200, TRUE, "none", getById(id)))
  /\ OnlyLast

(* GET /api/employees/:id *)
ApiGet(id) ==
  /\ last' = IF getById(id) = NoEmployee
             THEN MkLast("apiGet", Number(id), NoData, "404",
                         ApiResponse(404, FALSE, "Employee not found", NoEmployee))
             ELSE MkLast("apiGet", Number(id), NoData, "200",
                         ApiResponse(200, TRUE, "none", getById(id)))
  /\ OnlyLast

(* POST /api/employees *)
ApiPost(body) ==
  IF FieldMissing(body)
  THEN /\ last' = MkLast("apiPost", 0, body, "400",
                         ApiResponse(400, FALSE, "All fields are required", NoEmployee))
       /\ OnlyLast
  ELSE IF ~EmailRegexTest(body.email)
  THEN /\ last' = MkLast("apiPost", 0, body, "400",
                         ApiResponse(400, FALSE, "Invalid email format", NoEmployee))
       /\ OnlyLast
  ELSE Add(body)

(* PUT /api/employees/:id *)
ApiPut(id, body) ==
  IF getById(id) = NoEmployee
  THEN /\ last' = MkLast("apiPut", Number(id), body, "404",
                         ApiResponse(404, FALSE, "Employee not found", NoEmployee))
       /\ OnlyLast
  ELSE IF Truthy(body.email) /\ ~EmailRegexTest(body.email)
  THEN /\ last' = MkLast("apiPut", Number(id), body, "400",
                         ApiResponse(400, FALSE, "Invalid email format", NoEmployee))
       /\ OnlyLast
  ELSE Update(id, body)

(* DELETE /api/employees/:id acting on a lookup made before another *)
(* request was served                                               *)
ApiDeleteStaleCheck(id) == Delete(id)

(* DELETE /api/employees/:id *)
ApiDelete(id) ==
  IF getById(id) = NoEmployee
  THEN /\ last' = MkLast("apiDelete", Number(id), NoData, "404",
                         ApiResponse(404, FALSE, "Employee not found", NoEmployee))
       /\ OnlyLast
  ELSE Delete(id)

----------------------------------------------------------------------------
(* The admin routes behind isAdmin (routes/adminRoutes.js) *)

(* isAdmin: res.redirect('/admin/login') *)
AdminRedirect(id, body) ==
  /\ last' = MkLast("adminRedirect", id, body, "redirect",
                    Response("/admin/login", "none", NoUser, NoUser))
  /\ OnlyLast

(* GET /admin/dashboard *)
AdminDashboard ==
  IF ~IsAdmin THEN AdminRedirect(0, NoData)
  ELSE /\ last' = MkLast("adminDashboard", 0, NoData, "render",
                         [refs |-> getRecentEmployees(4).refs, all |-> getAll.refs])
       /\ OnlyLast

(* GET /admin/employee/add *)
AdminAddForm ==
  IF ~IsAdmin THEN AdminRedirect(0, NoData)
  ELSE /\ last' = MkLast("adminPage", 0, NoData, "render",
                         Response("admin/addEmployee", "none", NoUser, NoUser))
       /\ OnlyLast

(* POST /admin/employee/add *)
AdminAdd(body) ==
  IF ~IsAdmin THEN AdminRedirect(0, body)
  ELSE IF FieldMissing(body)
  THEN /\ last' = MkLast("adminAdd", 0, body, "render",
                         Response("admin/addEmployee", "All fields are required",
                                  NoUser, NoUser))
       /\ OnlyLast
  ELSE Add(body)

(* GET /admin/employee/edit/:id *)
AdminEditForm(id) ==
  IF ~IsAdmin THEN AdminRedirect(Number(id), NoData)
  ELSE /\ last' = IF getById(id) = NoEmployee
                  THEN MkLast("adminPage", Number(id), NoData, "redirect",
                              Response("/admin/dashboard", "none", NoUser, NoUser))
                  ELSE MkLast("adminPage", Number(id), NoData, "render",
                              Response("admin/editEmployee", "none", NoUser, NoUser))
       /\ OnlyLast

(* POST /admin/employee/edit/:id *)
AdminEdit(id, body) ==
  IF ~IsAdmin THEN AdminRedirect(Number(id), body)
  ELSE IF FieldMissing(body)
  THEN /\ last' = MkLast("adminEdit", Number(id), body, "render",
                         Response("admin/editEmployee", "All fields are required",
                                  NoUser, NoUser))
       /\ OnlyLast
  ELSE Update(id, body)

(* POST /admin/employee/delete/:id *)
AdminDelete(id) ==
  IF ~IsAdmin THEN AdminRedirect(Number(id), NoData)
  ELSE Delete(id)

----------------------------------------------------------------------------
(* Inputs of the employee store *)

Template ==
  [name |-> "Ann", designation |-> "Engineer", email |-> "a@x.com",
   contact |-> "555", department |-> "IT", joiningDate |-> "2024-01-15",
   location |-> "NYC"]

AddData == {[Template EXCEPT !.email = e] : e \in Emails}

UpdateData ==
  {[NoData EXCEPT !.name = n, !.email = e] :
     n \in {UNDEF, "Bob"}, e \in {UNDEF} \cup Emails}

(* the inputs of the runs that restart the process *)
InitAddData == {[Template EXCEPT !.email = e] : e \in {"a@x.com", "b@x.com"}}
InitUpdateData == {[NoData EXCEPT !.name = "Bob"]}
InitIdArgs == {DigitStr[i] : i \in 1..MaxRecords}

(* what the process can find in place of employees.json: nothing, an  *)
(* empty file, a collection an earlier run wrote, a hand-edited array *)
(* whose second record has no email                                   *)
InitialFiles ==
  {MissingFile, EmptyFile,
   JsonFile(Stringify(<<NewEmployee(2, Template)>>)),
   JsonFile(<<StringifyEmployee(NewEmployee(1, Template)),
              [id |-> 2, props |-> <<<<"name", "Bob">>>>]>>)}

InitialUserFiles ==
  {MissingFile, EmptyFile,
   JsonFile(StringifyUsers(<<[id |-> 1, username |-> "Bob",
                              password |-> BcryptHash("secret1", "salt1"),
                              createdAt |-> CreatedAt]>>))}

(* the inputs of the runs in which callers use what they were handed *)
AliasAddData ==
  {[Template EXCEPT !.email = e, !.joiningDate = d] :
     e \in {"a@x.com", "b@x.com"}, d \in {"2024-01-15", "2023-06-01"}}
AliasUpdateData == {[NoData EXCEPT !.name = "Bob"]}

(* the bodies and ids of the requests to /api/employees *)
ApiPostBodies ==
  {[Template EXCEPT !.email = e] : e \in {"a@x.com", "A@X.COM", "b@x.com", "bad"}}
    \cup {[Template EXCEPT !.location = UNDEF], [Template EXCEPT !.name = ""]}
ApiPutBodies ==
  {[NoData EXCEPT !.name = "Bob"], [NoData EXCEPT !.email = ""],
   [NoData EXCEPT !.email = "bad"], [NoData EXCEPT !.email = "b@x.com"]}
ApiIdArgs == InitIdArgs \cup {"abc"}

(* the bodies of the forms of the admin pages *)
AdminAddBodies ==
  {[Template EXCEPT !.email = e] : e \in {"a@x.com", "b@x.com"}}
    \cup {[Template EXCEPT !.contact = ""]}
AdminEditBodies ==
  {[Template EXCEPT !.name = "Bob"], [Template EXCEPT !.name = "Bob", !.contact = ""]}

(* the inputs of the runs that follow the timer and the file *)
PersistAddData == {Template}
PersistUpdateData == {[NoData EXCEPT !.name = "Bob"]}

----------------------------------------------------------------------------
(* The store after construction and init() on a missing file *)

Init ==
  /\ employees = <<>>
  /\ indexById = EmptyMap
  /\ indexByEmail = EmptyMap
  /\ maxId = 0
  /\ saveTimeout = 0
  /\ timers = {}
  /\ elapsed = ElapsedCap
  /\ inflight = <<>>
  /\ file = JsonFile(Stringify(<<>>))
  /\ issued = {}
  /\ last = MkLast("init", 0, NoData, "none", NoEmployee)
  /\ burst = 0
  /\ burstWrites = 0
  /\ burstContent = <<>>
  /\ initialized = TRUE
  /\ server = "listening"
  /\ users = <<>>
  /\ indexByUsername = EmptyMap
  /\ userMaxId = 0
  /\ userInitialized = TRUE
  /\ userTimer = FALSE
  /\ userFile = JsonFile(StringifyUsers(<<>>))
  /\ creating = <<>>
  /\ adminCookie = "none"
  /\ userCookie = NoUser
  /\ adminSession = FALSE

Next ==
  \/ \E d \in AddData : Add(d)
  \/ \E id \in IdArgs, d \in UpdateData : Update(id, d)
  \/ \E id \in IdArgs : Delete(id)

Spec == Init /\ [][Next]_vars

(* The store together with the clock, the debounce timer and the writes *)
NextPersist ==
  \/ \E d \in PersistAddData : Add(d)
  \/ \E id \in IdArgs, d \in PersistUpdateData : Update(id, d)
  \/ \E id \in IdArgs : Delete(id)
  \/ \E id \in IdArgs : GetById(id)
  \/ \E d \in PersistAddData : GetByEmail(d.email)
  \/ Tick
  \/ TimerFire
  \/ WriteOpen
  \/ WriteDone

SpecPersist == Init /\ [][NextPersist]_vars

(* Process starts over the files they find, and the requests between them *)
InitStart ==
  /\ employees = <<>>
  /\ indexById = EmptyMap
  /\ indexByEmail = EmptyMap
  /\ maxId = 0
  /\ saveTimeout = 0
  /\ timers = {}
  /\ elapsed = ElapsedCap
  /\ inflight = <<>>
  /\ file \in InitialFiles
  /\ issued = {}
  /\ last = MkLast("none", 0, NoData, "none", NoEmployee)
  /\ burst = 0
  /\ burstWrites = 0
  /\ burstContent = <<>>
  /\ initialized = FALSE
  /\ server = "down"
  /\ users = <<>>
  /\ indexByUsername = EmptyMap
  /\ userMaxId = 0
  /\ userInitialized = FALSE
  /\ userTimer = FALSE
  /\ userFile \in InitialUserFiles
  /\ creating = <<>>
  /\ adminCookie = "none"
  /\ userCookie = NoUser
  /\ adminSession = FALSE

NextInit ==
  \/ StartServer
  \/ EmployeeStoreInit
  \/ UserStoreInit
  \/ \E d \in InitAddData : ServeAdd(d)
  \/ \E id \in InitIdArgs, d \in InitUpdateData : ServeUpdate(id, d)
  \/ \E id \in InitIdArgs : ServeDelete(id)
  \/ Flush

SpecInit == InitStart /\ [][NextInit]_vars

(* Callers that write to the values the employee store returned *)
NextAlias ==
  \/ \E d \in AliasAddData : Add(d)
  \/ \E id \in InitIdArgs, d \in AliasUpdateData : Update(id, d)
  \/ GetAll
  \/ \E limit \in 1..MaxRecords : GetRecentEmployees(limit)
  \/ \E id \in InitIdArgs : GetById(id)
  \/ \E d \in AliasAddData : GetByEmail(d.email)
  \/ CallerChangesArray
  \/ CallerAssignsName("Zed")

SpecAlias == Init /\ [][NextAlias]_vars

(* Flushes that can fail.  The event loop runs due timers and every *)
(* started write ends, one way or the other.                        *)
NextFlushFail ==
  \/ \E d \in PersistAddData : ServeAdd(d)
  \/ \E id \in InitIdArgs : ServeDelete(id)
  \/ Tick
  \/ TimerFire
  \/ WriteOpen
  \/ WriteDone
  \/ WriteFail

SpecFlushFail ==
  /\ Init
  /\ [][NextFlushFail]_vars
  /\ WF_vars(Tick)
  /\ WF_vars(TimerFire)
  /\ WF_vars(WriteOpen)
  /\ WF_vars(WriteDone \/ WriteFail)

(* The REST routes, open to a client with or without the admin cookie *)
NextApi ==
  \/ \E id \in ApiIdArgs : ApiGet(id)
  \/ \E body \in ApiPostBodies : ApiPost(body)
  \/ \E id \in ApiIdArgs, body \in ApiPutBodies : ApiPut(id, body)
  \/ \E id \in ApiIdArgs : ApiDelete(id)
  \/ \E req \in {ADMIN_CREDENTIALS} : AdminLogin(req)
  \/ AdminLogout

SpecApi == Init /\ [][NextApi]_vars

(* The admin pages of one client *)
NextAdmin ==
  \/ \E req \in AdminLoginRequests : AdminLogin(req)
  \/ AdminLogout
  \/ AdminCookieExpires
  \/ AdminDashboard
  \/ AdminAddForm
  \/ \E body \in AdminAddBodies : AdminAdd(body)
  \/ \E id \in InitIdArgs : AdminEditForm(id)
  \/ \E id \in InitIdArgs, body \in AdminEditBodies : AdminEdit(id, body)
  \/ \E id \in InitIdArgs : AdminDelete(id)

SpecAdmin == Init /\ [][NextAdmin]_vars

(* The cookies of one client over the signup, login and logout routes *)
NextSession ==
  \/ \E path \in {"user/login", "user/signup"} : GetUserForm(path)
  \/ \E req \in SessionSignupRequests : SignupBegin(req)
  \/ SignupFinish
  \/ \E req \in SessionLoginRequests : Login(req)
  \/ UserLogout
  \/ AdminLoginForm
  \/ \E req \in AdminLoginRequests : AdminLogin(req)
  \/ AdminLogout
  \/ AdminCookieExpires

SpecSession == Init /\ [][NextSession]_vars

(* The user store behind the signup and login handlers *)
NextUsers ==
  \/ \E req \in SignupRequests : SignupBegin(req)
  \/ SignupFinish
  \/ \E req \in LoginRequests : Login(req)
  \/ UserTimerFire
  \/ UserLogout

SpecUsers == Init /\ [][NextUsers]_vars

----------------------------------------------------------------------------
(* Linear scans of the collection, the reference the indexes are compared *)
(* with                                                                   *)

MinOf(S) == CHOOSE i \in S : \A j \in S : i <= j

ScanById(numId) ==
  LET hits == {i \in 1..Len(employees) : employees[i].id = numId} IN
  IF hits = {} THEN NoEmployee ELSE employees[MinOf(hits)]

ScanByEmail(email) ==
  LET hits == {i \in 1..Len(employees) :
                 toLowerCase(employees[i].email) = toLowerCase(email)} IN
  IF hits = {} THEN NoEmployee ELSE employees[MinOf(hits)]

HasId(numId) == \E i \in 1..Len(employees) : employees[i].id = numId
HasEmail(email) ==
  \E i \in 1..Len(employees) : toLowerCase(employees[i].email) = toLowerCase(email)

----------------------------------------------------------------------------
(* C1: no two records of the collection have emails that are equal when *)
(* lowercased.                                                          *)
C1_EmailsPairwiseDistinct ==
  \A i, j \in 1..Len(employees) :
    i # j => toLowerCase(employees[i].email) # toLowerCase(employees[j].email)

(* C2: every id assigned by add is strictly greater than every id assigned *)
(* by an earlier add, deletes in between included.                         *)
C2_IdsNeverReused ==
  [][(last'.op = "add" /\ last'.ret = "record")
       => \A i \in issued : last'.val.id > i]_vars

(* C3: after every add, update or delete, getById and getByEmail return *)
(* exactly what a linear scan of the collection finds, and null exactly *)
(* when the scan finds nothing.                                         *)
C3_LookupsMatchScan ==
  /\ \A id \in IdArgs : getById(id) = ScanById(Number(id))
  /\ \A e \in Emails : getByEmail(e) = ScanByEmail(e)

(* C4: a burst of mutations, each less than the debounce delay after the  *)
(* previous one, gets exactly one file write: none while the timer of the *)
(* last mutation is pending, one once it has fired, started no sooner     *)
(* than the delay after the last mutation and carrying the collection as  *)
(* it stands after that mutation.                                         *)
C4_BurstWrittenOnce ==
  burst >= 1 =>
    /\ burstWrites = IF timers = {} THEN 1 ELSE 0
    /\ burstWrites = 1 =>
         /\ elapsed >= DEBOUNCE_MS
         /\ burstContent = Stringify(employees)

C4_Witness ==
  /\ burst >= 2
  /\ burstWrites = 1
  /\ timers = {}
  /\ Len(employees) >= 1

(* C5: once no mutation is issued any more and every started write has    *)
(* completed, the file holds exactly the in-memory collection, also when   *)
(* an earlier write was still in flight when a later timer fired.          *)
C5_FileMatchesMemoryWhenQuiet ==
  (timers = {} /\ inflight = <<>>) => file = JsonFile(Stringify(employees))

(* C6: update on an existing id changes no field but the supplied ones:    *)
(* the record keeps its id and position, every field left undefined in the *)
(* data keeps its value, every other record is unchanged, and when the     *)
(* call returns the supplied fields hold the supplied values.              *)
C6_PartialUpdateFrame ==
  [][\A i \in 1..Len(employees) :
       (last'.op = "update" /\ employees[i].id = last'.id) =>
         /\ Len(employees') = Len(employees)
         /\ \A j \in 1..Len(employees) : j # i => employees'[j] = employees[j]
         /\ employees'[i].id = employees[i].id
         /\ \A f \in Fields :
              last'.data[f] = UNDEF => employees'[i][f] = employees[i][f]
         /\ last'.ret = "record" =>
              \A f \in Fields :
                last'.data[f] # UNDEF => employees'[i][f] = last'.data[f]]_vars

C6_Witness ==
  /\ last.op = "update"
  /\ last.ret = "record"
  /\ last.data.name = "Bob"
  /\ last.data.email = UNDEF
  /\ Len(employees) = 2
  /\ \E i \in 1..2 : /\ employees[i].id = last.id
                     /\ employees[i].name = "Bob"
                     /\ employees[i].email = "b@x.com"
                     /\ employees[3 - i].name = "Ann"

(* C7: an update whose email differs, ignoring case, from the record's own *)
(* and equals, ignoring case, the email of a different record is rejected  *)
(* with 'Email already exists' and changes nothing: collection, indexes,   *)
(* maxId and the pending timer stay as they were.                          *)
C7_UpdateCollisionRejected ==
  [][\A i \in 1..Len(employees) :
       ( /\ last'.op = "update"
         /\ employees[i].id = last'.id
         /\ last'.data.email # UNDEF
         /\ toLowerCase(last'.data.email) # toLowerCase(employees[i].email)
         /\ \E j \in 1..Len(employees) :
              /\ j # i
              /\ toLowerCase(employees[j].email) = toLowerCase(last'.data.email) )
       => /\ last'.ret = "Email already exists"
          /\ UNCHANGED <<storeVars, timerVars>>]_vars

(* C8: add with an email that equals, ignoring case, the email of an       *)
(* existing record is rejected with 'Email already exists', consumes no id *)
(* and leaves collection, indexes, maxId and the pending timer unchanged.  *)
C8_AddDuplicateRejected ==
  [][(last'.op = "add" /\ HasEmail(last'.data.email))
       => /\ last'.ret = "Email already exists"
          /\ UNCHANGED <<storeVars, timerVars, issued>>]_vars

(* C9: delete of an existing id returns true; afterwards getById of that   *)
(* id is null, the deleted record's email is free for add, count is one    *)
(* less and the other records are all there, unmodified and in the same    *)
(* order.                                                                  *)
C9_DeleteRemovesExactlyOne ==
  [][\A i \in 1..Len(employees) :
       (last'.op = "delete" /\ employees[i].id = last'.id) =>
         /\ last'.ret = "true"
         /\ ~MapHas(indexById', last'.id)
         /\ ~MapHas(indexByEmail', toLowerCase(employees[i].email))
         /\ count' = count - 1
         /\ employees' = Filtered(employees, i - 1)]_vars

(* C10: for an id that no record has, getById returns null, update returns *)
(* null and delete returns false, none of them throws, and collection,     *)
(* indexes, maxId and the pending flush timer are left exactly as they     *)
(* were.                                                                   *)
C10_AbsenceChangesNothing ==
  [][(last'.op \in {"getById", "update", "delete"} /\ ~HasId(last'.id))
       => /\ last'.ret = IF last'.op = "delete" THEN "false" ELSE "null"
          /\ UNCHANGED <<storeVars, timerVars>>]_vars

C10_Witness ==
  /\ last.op = "delete"
  /\ last.ret = "false"
  /\ Len(employees) = 1
  /\ \E t \in timers : t.due > 0 /\ t.due < DEBOUNCE_MS

----------------------------------------------------------------------------
(* Every index entry points at a record that has its key, and every record *)
(* has an entry under each of its keys                                     *)
IndexesConsistent ==
  /\ \A k \in DOMAIN indexById :
       indexById[k] \in Positions(employees) /\ At(employees, indexById[k]).id = k
  /\ \A k \in DOMAIN indexByEmail :
       /\ indexByEmail[k] \in Positions(employees)
       /\ toLowerCase(At(employees, indexByEmail[k]).email) = k
  /\ \A i \in Positions(employees) :
       /\ At(employees, i).id \in DOMAIN indexById
       /\ toLowerCase(At(employees, i).email) \in DOMAIN indexByEmail

(* C11: a process that starts right after a flush loads from the file the  *)
(* records the writing store held, in the same order, with indexes that    *)
(* are consistent with them and the maxId the writing store had.           *)
C11_RoundTrip ==
  [][(last.op = "flush" /\ last'.op = "startServer")
       => /\ last'.ret = "loaded"
          /\ employees' = employees
          /\ maxId' = maxId
          /\ IndexesConsistent'
          /\ initialized']_vars

C11_Witness ==
  /\ last.op = "startServer"
  /\ last.ret = "loaded"
  /\ Len(employees) = 2
  /\ \E i \in 1..2 : employees[i].name = "Bob"
  /\ maxId > employees[1].id

(* C12: a call of init() on a store that is already initialized reads and *)
(* writes no file and leaves the collection, the indexes, maxId and the   *)
(* pending timer as they were, whatever the file holds; the same for the  *)
(* user store.                                                            *)
C12_InitIdempotent ==
  [][/\ (last'.op = "init" /\ initialized)
          => /\ last'.ret = "noop"
             /\ UNCHANGED <<storeVars, timerVars, fileVars, initialized>>
     /\ (last'.op = "userInit" /\ userInitialized)
          => /\ last'.ret = "noop"
             /\ UNCHANGED userVars]_vars

C12_Witness ==
  /\ last.op = "init"
  /\ last.ret = "noop"
  /\ file.kind = "json"
  /\ Len(employees) >= 1
  /\ Stringify(employees) # file.text

(* C13: when the file is there but cannot be loaded (no JSON, or a record *)
(* without an email), the start throws, the store is not initialized and  *)
(* holds an empty collection and empty indexes, the file is not written   *)
(* and the process exits without listening.                               *)
C13_FailedInitLeavesNothing ==
  [][(/\ last'.op = "startServer"
      /\ \/ file.kind \in {"empty", "garbled"}
         \/ file.kind = "json" /\ GoodPrefix(Parse(file.text)) < Len(file.text))
       => /\ last'.ret = "failed"
          /\ ~initialized'
          /\ employees' = <<>>
          /\ indexById' = EmptyMap
          /\ indexByEmail' = EmptyMap
          /\ file' = file
          /\ server' = "exited"]_vars

(* C14: a start that finds no file leaves the store initialized, empty,  *)
(* with empty indexes and maxId 0, the file holding an empty array and   *)
(* no timer pending; the first add after it gets id 1.  The same for the *)
(* user store.                                                           *)
C14_MissingFileCreated ==
  [][/\ (last'.op = "startServer" /\ file.kind = "missing")
          => /\ last'.ret = "created"
             /\ initialized'
             /\ employees' = <<>>
             /\ indexById' = EmptyMap
             /\ indexByEmail' = EmptyMap
             /\ maxId' = 0
             /\ file' = JsonFile(Stringify(<<>>))
             /\ timers' = {} /\ saveTimeout' = 0 /\ inflight' = <<>>
     /\ (last'.op = "startServer" /\ last'.ret # "failed" /\ userFile.kind = "missing")
          => /\ userInitialized'
             /\ users' = <<>>
             /\ indexByUsername' = EmptyMap
             /\ userMaxId' = 0
             /\ userFile' = JsonFile(StringifyUsers(<<>>))
             /\ ~userTimer'
     /\ (last.op = "startServer" /\ last.ret = "created"
           /\ last'.op = "add" /\ last'.ret = "record")
          => last'.val.id = 1]_vars

C14_Witness ==
  /\ last.op = "add"
  /\ last.ret = "record"
  /\ last.val.id = 1
  /\ file = JsonFile(Stringify(<<>>))
  /\ userFile = JsonFile(StringifyUsers(<<>>))
  /\ initialized
  /\ timers # {}

(* C15: whatever a caller writes into a value the store returned, the *)
(* collection, the indexes and maxId stay as they were.               *)
C15_ReturnedValuesDetached ==
  [][last'.op = "callerWrite" => UNCHANGED storeVars]_vars

----------------------------------------------------------------------------
(* the users whose username is the given one, ignoring case *)
UsersNamed(username) ==
  {i \in 1..Len(users) : toLowerCase(users[i].username) = toLowerCase(username)}

(* a login that must fail: the password is not the override credential, *)
(* and nobody has the username or the password fits none who has it     *)
FailingLogin(req) ==
  /\ req.password # MASTER_PASSWORD
  /\ \A i \in UsersNamed(req.username) : ~BcryptCompare(req.password, users[i].password)

(* C16 as stated: every failing login gets null from authenticate, the *)
(* message 'Invalid username or password' and no cookie, whether the   *)
(* username is unknown or the password is wrong.                       *)
C16_FailureUndifferentiated ==
  (last.op = "login" /\ FailingLogin(last.data))
    => /\ last.val.user = NoUser
       /\ last.val.error = "Invalid username or password"
       /\ last.val.cookie = NoUser

(* C16 amended: that holds for a non-empty username and a non-empty      *)
(* password; with either one empty the message is 'Username and password *)
(* are required', again whoever has the username, and no cookie is set.  *)
C16_FailureUndifferentiatedNonEmpty ==
  (last.op = "login" /\ FailingLogin(last.data))
    => /\ last.val.user = NoUser
       /\ last.val.cookie = NoUser
       /\ last.ret = "render"
       /\ last.val.error =
            IF last.data.username = "" \/ last.data.password = ""
            THEN "Username and password are required"
            ELSE "Invalid username or password"

C16_Witness ==
  /\ last.op = "login"
  /\ FailingLogin(last.data)
  /\ last.data.password # ""
  /\ UsersNamed(last.data.username) # {}
  /\ \E name \in Usernames : UsersNamed(name) = {}
  /\ last.val.error = "Invalid username or password"

(* C17: with the override credential a login succeeds for every username  *)
(* some user has, ignoring case, and returns the id and username of such  *)
(* a user, whatever hash is stored; it returns null for any other name.   *)
C17_OverrideCredential ==
  (last.op = "login" /\ last.data.password = MASTER_PASSWORD)
    => IF UsersNamed(last.data.username) # {}
       THEN /\ last.ret = "redirect"
            /\ \E i \in UsersNamed(last.data.username) :
                 last.val.user = [id |-> users[i].id, username |-> users[i].username]
       ELSE /\ last.val.user = NoUser
            /\ last.ret = "render"

C17_Witness ==
  /\ last.op = "login"
  /\ last.data.password = MASTER_PASSWORD
  /\ last.ret = "redirect"
  /\ last.data.username # last.val.user.username
  /\ \A i \in 1..Len(users) : ~BcryptCompare(MASTER_PASSWORD, users[i].password)

(* a text bcrypt.hash can have produced *)
IsHash(text) ==
  \E p \in Passwords \cup {MASTER_PASSWORD}, salt \in Salts : text = BcryptHash(p, salt)

(* C18: every record in memory and every record in users.json holds a    *)
(* hash and no password anyone supplied; the record a create appended    *)
(* holds a hash of the password of that create; what create and a        *)
(* successful authenticate return has the members id and username only.  *)
C18_OnlyHashesKept ==
  /\ \A i \in 1..Len(users) :
       IsHash(users[i].password) /\ users[i].password \notin Passwords
  /\ userFile.kind = "json"
       => \A i \in 1..Len(userFile.text) :
            /\ IsHash(Prop(userFile.text[i].props, "password"))
            /\ Prop(userFile.text[i].props, "password") \notin Passwords
  /\ last.op = "signupDone"
       => /\ DOMAIN last.val.user = {"id", "username"}
          /\ BcryptCompare(last.data.password, users[Len(users)].password)
  /\ (last.op = "login" /\ last.ret = "redirect")
       => DOMAIN last.val.user = {"id", "username"}

C18_Witness ==
  /\ last.op = "userFire"
  /\ userFile.kind = "json"
  /\ Len(userFile.text) = Len(users)
  /\ Len(users) >= 1

(* C19: the users collection never holds two records whose usernames are *)
(* equal ignoring case.                                                  *)
C19_UsernamesUnique ==
  \A i, j \in 1..Len(users) :
    i # j => toLowerCase(users[i].username) # toLowerCase(users[j].username)

(* C20: a signup that passes the checks of the form and asks for a       *)
(* username some user has, ignoring case, ends with 'Username already    *)
(* exists' thrown by create and shown by the handler, no cookie, and     *)
(* users, the username index and maxId as they were.                     *)
C20_DuplicateUsernameRejected ==
  [][(/\ last'.op = "signup"
      /\ SignupError(last'.data) = "none"
      /\ UsersNamed(last'.data.username) # {})
       => /\ last'.ret = "render"
          /\ last'.val.error = "Username already exists"
          /\ last'.val.cookie = NoUser
          /\ UNCHANGED <<users, indexByUsername, userMaxId, creating>>]_vars

C20_Witness ==
  /\ last.op = "signup"
  /\ last.val.error = "Username already exists"
  /\ \E i \in UsersNamed(last.data.username) : users[i].username # last.data.username
  /\ creating = <<>>

----------------------------------------------------------------------------
(* C22: a GET or POST to /login or /signup from a client that holds a   *)
(* userToken cookie is redirected to / and changes neither the user     *)
(* store nor any cookie; a GET or POST to /admin/login from a client    *)
(* that holds the admin token is redirected to /admin/dashboard.        *)
C22_SignedInSkipsForms ==
  [][/\ (last'.op \in {"form", "signup", "login", "guestRedirect"}
           /\ userCookie # NoUser)
          => /\ last'.op = "guestRedirect"
             /\ last'.val.view = "/"
             /\ last'.val.cookie = NoUser
             /\ UNCHANGED <<userVars, adminCookie, userCookie>>
     /\ (last'.op \in {"adminForm", "adminLogin", "adminGuestRedirect"}
           /\ adminCookie = ADMIN_TOKEN)
          => /\ last'.op = "adminGuestRedirect"
             /\ last'.val.view = "/admin/dashboard"
             /\ UNCHANGED <<userVars, adminCookie, userCookie>>]_vars

C22_Witness ==
  /\ last.op = "guestRedirect"
  /\ last.data.username = "bob"
  /\ last.data.password = "letmein9"
  /\ userCookie # NoUser
  /\ adminCookie = ADMIN_TOKEN

(* the message POST /signup owes a request, "none" for one that passes *)
FirstFailingCheck(req) ==
  CASE req.username = "" \/ req.password = "" -> "Username and password are required"
    [] req.username # "" /\ req.password # "" /\ Len(req.username) < 3
         -> "Username must be at least 3 characters"
    [] req.password # "" /\ Len(req.username) >= 3 /\ Len(req.password) < 6
         -> "Password must be at least 6 characters"
    [] Len(req.username) >= 3 /\ Len(req.password) >= 6
       /\ req.password # req.confirmPassword
         -> "Passwords do not match"
    [] OTHER -> "none"

(* C23: a signup that fails a check of the form is answered with the    *)
(* form and the message of the first failing check, and leaves the user *)
(* store and the cookie as they were; a user is created, and the cookie *)
(* set by a signup, only for a request that passes all four.            *)
C23_SignupValidation ==
  [][/\ (last'.op = "signup" /\ FirstFailingCheck(last'.data) # "none")
          => /\ last'.ret = "render"
             /\ last'.val.view = "user/signup"
             /\ last'.val.error = FirstFailingCheck(last'.data)
             /\ last'.val.cookie = NoUser
             /\ UNCHANGED <<userVars, userCookie>>
     /\ (users' # users \/ last'.op = "signupDone")
          => /\ last'.op = "signupDone"
             /\ FirstFailingCheck(last'.data) = "none"
             /\ Len(users') = Len(users) + 1
             /\ userCookie' = last'.val.cookie
             /\ userCookie' # NoUser]_vars

C23_Witness ==
  /\ last.op = "signup"
  /\ last.data.username = "al"
  /\ last.data.password = "abc"
  /\ last.val.error = "Username must be at least 3 characters"
  /\ Len(users) = 1

----------------------------------------------------------------------------
(* the calls an admin page handler leaves on record once isAdmin let it run *)
AdminHandlerOps ==
  {"adminDashboard", "adminPage", "adminAdd", "adminEdit", "add", "update", "delete"}

(* C21: the dashboard and the employee add, edit and delete handlers run  *)
(* only for a client that has posted the admin credentials to             *)
(* /admin/login and not requested /admin/logout since; any other request  *)
(* to them is redirected to /admin/login and leaves the employee store,   *)
(* its timer and its file as they were.                                   *)
C21_AdminPagesNeedLogin ==
  [][/\ last'.op \in AdminHandlerOps => adminSession
     /\ (last'.op \in AdminHandlerOps \cup {"adminRedirect"} /\ ~adminSession)
          => last'.op = "adminRedirect"
     /\ last'.op = "adminRedirect"
          => /\ last'.val.view = "/admin/login"
             /\ UNCHANGED <<storeVars, timerVars, fileVars>>]_vars

C21_Witness ==
  /\ last.op = "adminRedirect"
  /\ last.data = [Template EXCEPT !.email = "b@x.com"]
  /\ ~adminSession
  /\ Len(employees) = 1

(* what POST /api/employees owes a body *)
PostAcceptable(body) ==
  /\ \A f \in Fields : body[f] # UNDEF /\ body[f] # ""
  /\ EmailRegexTest(body.email)
  /\ ~HasEmail(body.email)

(* C24: POST /api/employees answers 201 and appends one record, which it  *)
(* returns, exactly when all seven fields are non-empty, the email has    *)
(* the format and no record has that email ignoring case; otherwise it    *)
(* answers 400 (field missing, format) or 409 (email taken) and leaves    *)
(* collection, indexes, maxId and timer as they were.                     *)
C24_ApiPostContract ==
  [][last'.op \in {"apiPost", "add"}
       => LET body == last'.data
              resp == ApiResponseOf(last')
          IN IF PostAcceptable(body)
             THEN /\ resp.status = 201
                  /\ Len(employees') = Len(employees) + 1
                  /\ SubSeq(employees', 1, Len(employees)) = employees
                  /\ resp.data = employees'[Len(employees')]
                  /\ \A f \in Fields : resp.data[f] = body[f]
             ELSE /\ resp.status = IF \/ \E f \in Fields : ~Truthy(body[f])
                                      \/ ~EmailRegexTest(body.email)
                                   THEN 400 ELSE 409
                  /\ ~resp.success
                  /\ UNCHANGED <<storeVars, timerVars>>]_vars

(* C25: GET, PUT and DELETE /api/employees/:id for an id no record has    *)
(* answer 404 with success false and leave collection, indexes, maxId and *)
(* the pending timer as they were; GET for an id a record has answers 200 *)
(* with the record of that id.                                            *)
C25_ApiUnknownId ==
  [][/\ (last'.op \in {"apiGet", "apiPut", "apiDelete", "update", "delete"}
           /\ ~HasId(last'.id))
          => /\ ApiResponseOf(last').status = 404
             /\ ~ApiResponseOf(last').success
             /\ UNCHANGED <<storeVars, timerVars, fileVars>>
     /\ (last'.op = "apiGet" /\ HasId(last'.id))
          => /\ ApiResponseOf(last').status = 200
             /\ ApiResponseOf(last').success
             /\ ApiResponseOf(last').data.id = last'.id
             /\ \E i \in 1..Len(employees) : employees[i] = ApiResponseOf(last').data
             /\ UNCHANGED <<storeVars, timerVars, fileVars>>]_vars

C25_Witness ==
  /\ last.op = "apiDelete"
  /\ last.val.status = 404
  /\ last.id = 1
  /\ Len(employees) = 1
  /\ timers # {}

(* C29: a step that changes the employee collection is a request that *)
(* carries the admin token.                                           *)
C29_MutationsCarryAdminToken ==
  [][employees' # employees => adminCookie = ADMIN_TOKEN]_vars

(* C30: DELETE /api/employees/:id never answers 500 'Failed to delete   *)
(* employee' and PUT never answers 200 with null data: the record the   *)
(* handler's getById found is found by the store call that follows.     *)
C30_CheckThenActIsOneStep ==
  /\ last.op = "delete" => ApiResponseOf(last).status = 200
  /\ last.op = "update"
       => \/ ApiResponseOf(last).status = 409
          \/ ApiResponseOf(last).status = 200 /\ ApiResponseOf(last).data # NoEmployee

C30_Witness ==
  /\ last.op = "delete"
  /\ last.ret = "true"
  /\ last.id = 1
  /\ Len(employees) = 1
  /\ employees[1].id = 2

----------------------------------------------------------------------------
(* C26: a successful add, update or delete leaves the file and the writes *)
(* in flight as they were and exactly one timer pending, due after the    *)
(* full delay; the file changes only in the course of a write, and a      *)
(* write starts only when a timer fires.                                  *)
C26_MutationsOnlySchedule ==
  [][/\ (last'.op \in {"add", "update", "delete"} /\ last'.ret \in {"record", "true"})
          => /\ file' = file
             /\ inflight' = inflight
             /\ timers' = {[h |-> saveTimeout', due |-> DEBOUNCE_MS]}
     /\ file' # file => last'.op \in {"writeOpen", "writeDone"}
     /\ Len(inflight') > Len(inflight) => last'.op = "fire"]_vars

C26_Witness ==
  /\ last.op = "delete"
  /\ last.ret = "true"
  /\ employees = <<>>
  /\ file.kind = "json"
  /\ Len(file.text) = 1
  /\ Cardinality(timers) = 1
  /\ inflight = <<>>

(* C27: after a write started by the timer has failed, and unless a      *)
(* mutation follows, the file comes to hold the collection.  (The store  *)
(* has no error handler a failure could be reported to.)                 *)
C27_FailedFlushRecovered ==
  (last.op = "writeFail")
    ~> \/ file = JsonFile(Stringify(employees))
       \/ last.op \in {"add", "delete"} /\ last.ret \in {"record", "true"}

(* C28: getRecentEmployees(n) returns min(n, count) records, the latest  *)
(* joiningDate first and records of one date in insertion order, none    *)
(* left out that precedes a returned one; collection, indexes, maxId,    *)
(* timer and file stay as they were.                                     *)
C28_RecentEmployees ==
  [][last'.op = "getRecentEmployees"
       => LET refs == last'.val.refs
              n == last'.id
          IN /\ Len(refs) = Min(n, Len(employees))
             /\ \A i \in 1..Len(refs) : refs[i] \in Positions(employees)
             /\ \A i, j \in 1..Len(refs) :
                  i < j =>
                    \/ DateValue(At(employees, refs[i]).joiningDate)
                         > DateValue(At(employees, refs[j]).joiningDate)
                    \/ /\ DateValue(At(employees, refs[i]).joiningDate)
                            = DateValue(At(employees, refs[j]).joiningDate)
                       /\ refs[i] < refs[j]
             /\ \A k \in Positions(employees) :
                  (\A i \in 1..Len(refs) : refs[i] # k)
                    => \A i \in 1..Len(refs) :
                         \/ DateValue(At(employees, refs[i]).joiningDate)
                              > DateValue(At(employees, k).joiningDate)
                         \/ /\ DateValue(At(employees, refs[i]).joiningDate)
                                 = DateValue(At(employees, k).joiningDate)
                            /\ refs[i] < k
             /\ UNCHANGED <<storeVars, timerVars, fileVars>>]_vars

C28_Witness ==
  /\ last.op = "getRecentEmployees"
  /\ last.id = 2
  /\ last.val.refs = <<1, 0>>
  /\ employees[1].joiningDate = "2023-06-01"
  /\ employees[2].joiningDate = "2024-01-15"

====
